---------------------------- MODULE Spec2Model ----------------------------
(***************************************************************************)
(* Model of src/python/gpuarray.py: the work-distribution heuristic splay, *)
(* the three strided-loop kernels, and the GPUArray operations that size   *)
(* and enqueue them on the execution engine's ordered queues.              *)
(***************************************************************************)
EXTENDS Integers, Sequences, FiniteSets, TLC

VARIABLES
    arrays,   \* the GPUArray objects alive on the host, in allocation order
    queues,   \* engine: pending work of the default queue (0) and of each stream
    last,     \* the last host call: its arguments, driver calls, outcome
    budget,   \* number of host calls the program still makes
    origin,   \* for each array of arrays, the host call that constructed it
    sp        \* a call of splay and the index visits of a kernel launched with it

vars == <<arrays, queues, last, budget, origin, sp>>

(***************************************************************************)
(* Bounds of the model.                                                    *)
(***************************************************************************)
MaxCalls == 2
NStreams == 2
SplayMaxN == 13
SplayMaxMin == 3
SplayMaxMax == 4
SplayMaxBlocks == 3
ArithExtra == 1
ArithPatterns == 2

(***************************************************************************)
(* Program constants.                                                      *)
(***************************************************************************)
WARP_SIZE == 32
MAX_THREADS == 128
MAX_BLOCKS == 80

\* stream=None: no bound stream; work goes to the default queue (queue 0).
None == 0
Streams == 1..NStreams
StreamArgs == {None} \cup Streams

\* Contents of a device cell: <<v>> holds the float v, Uninit is memory that
\* was allocated and never written (reading it yields an arbitrary value).
Uninit == <<>>
Cell(v) == <<v>>

(***************************************************************************)
(* splay                                                                   *)
(***************************************************************************)
splay_tpb_n(n, min_threads, max_threads, max_blocks) ==
    IF n < min_threads THEN
        [block_count |-> 1, threads_per_block |-> n, elems_per_block |-> n]
    ELSE IF n < max_blocks * min_threads THEN
        [block_count |-> (n + min_threads - 1) \div min_threads,
         threads_per_block |-> min_threads,
         elems_per_block |-> min_threads]
    ELSE IF n < max_blocks * max_threads THEN
        LET grp == (n + min_threads - 1) \div min_threads
            tpb == ((grp + max_blocks - 1) \div max_blocks) * min_threads
        IN [block_count |-> max_blocks, threads_per_block |-> tpb,
            elems_per_block |-> tpb]
    ELSE
        LET grp  == (n + min_threads - 1) \div min_threads
            grp2 == (grp + max_blocks - 1) \div max_blocks
        IN [block_count |-> max_blocks, threads_per_block |-> max_threads,
            elems_per_block |-> grp2 * min_threads]

splay(n, min_threads, max_threads, max_blocks) ==
    IF n < min_threads THEN
        [block_count |-> 1, threads_per_block |-> min_threads, elems_per_block |-> n]
    ELSE IF n < max_blocks * min_threads THEN
        [block_count |-> (n + min_threads - 1) \div min_threads,
         threads_per_block |-> min_threads,
         elems_per_block |-> min_threads]
    ELSE IF n < max_blocks * max_threads THEN
        LET grp == (n + min_threads - 1) \div min_threads
            tpb == ((grp + max_blocks - 1) \div max_blocks) * min_threads
        IN [block_count |-> max_blocks, threads_per_block |-> tpb,
            elems_per_block |-> tpb]
    ELSE
        LET grp  == (n + min_threads - 1) \div min_threads
            grp2 == (grp + max_blocks - 1) \div max_blocks
        IN [block_count |-> max_blocks, threads_per_block |-> max_threads,
            elems_per_block |-> grp2 * min_threads]

(***************************************************************************)
(* The strided loop shared by the three kernels:                           *)
(*   for (i = cta_start + tid; i < n; i += total_threads)                  *)
(* StridedLoop is the set of indices one thread visits.                    *)
(***************************************************************************)
RECURSIVE LoopFrom(_, _, _)
LoopFrom(i, n, step) ==
    IF i < n THEN {i} \cup LoopFrom(i + step, n, step) ELSE {}

StridedLoop_once(blockIdx, tid, gridDim, blockDim, n) ==
    IF blockDim * blockIdx + tid < n THEN {blockDim * blockIdx + tid} ELSE {}

StridedLoop(blockIdx, tid, gridDim, blockDim, n) ==
    LET total_threads == gridDim * blockDim
        cta_start     == blockDim * blockIdx
    IN LoopFrom(cta_start + tid, n, total_threads)

\* The threads of a launch with grid=(gridDim,1), block=(blockDim,1,1).
Threads(gridDim, blockDim) == (0..(gridDim - 1)) \X (0..(blockDim - 1))

\* Every index some thread of the launch visits.
KernelIndices(gridDim, blockDim, n) ==
    UNION {StridedLoop(th[1], th[2], gridDim, blockDim, n) :
             th \in Threads(gridDim, blockDim)}

\* How many threads of the launch visit each visited index.
KernelVisits(gridDim, blockDim, n) ==
    [i \in KernelIndices(gridDim, blockDim, n) |->
        Cardinality({th \in Threads(gridDim, blockDim) :
                        i \in StridedLoop(th[1], th[2], gridDim, blockDim, n)})]


(***************************************************************************)
(* Scalar conversions at the launch sites.  Floats are modelled by         *)
(* integers; numpy.float32 keeps 24 significant bits (round half to even). *)
(* numpy.int32(self.size) is the size itself for every size below 2^31,    *)
(* the only sizes an integer of the model can hold.                        *)
(***************************************************************************)
RECURSIVE Quantum(_)
Quantum(m) == IF m < 16777216 THEN 1 ELSE 2 * Quantum(m \div 2)

float32(v) ==
    LET m  == IF v < 0 THEN 0 - v ELSE v
        q  == Quantum(m)
        lo == (m \div q) * q
        r  == m - lo
        up == IF 2 * r > q \/ (2 * r = q /\ (lo \div q) % 2 = 1) THEN lo + q ELSE lo
    IN IF v < 0 THEN 0 - up ELSE up


(***************************************************************************)
(* The kernels.  Each returns the output buffer after the launch: the      *)
(* cells the threads visit are written, the others keep their contents.    *)
(* Arithmetic on a cell that was never written yields an arbitrary value,  *)
(* so the result cell is again Uninit.                                     *)
(***************************************************************************)
axpbyz_kernel(a, x, b, y, z, n, gridDim, blockDim) ==
    LET W == KernelIndices(gridDim, blockDim, n)
    IN [i \in DOMAIN z |->
          IF i \in W
          THEN IF x[i] = Uninit \/ y[i] = Uninit THEN Uninit
               ELSE Cell(float32(a * x[i][1] + b * y[i][1]))
          ELSE z[i]]

scale_kernel(a, x, y, n, gridDim, blockDim) ==
    LET W == KernelIndices(gridDim, blockDim, n)
    IN [i \in DOMAIN y |->
          IF i \in W
          THEN IF x[i] = Uninit THEN Uninit ELSE Cell(float32(a * x[i][1]))
          ELSE y[i]]

fill_kernel(a, x, n, gridDim, blockDim) ==
    LET W == KernelIndices(gridDim, blockDim, n)
    IN [i \in DOMAIN x |-> IF i \in W THEN Cell(a) ELSE x[i]]

(***************************************************************************)
(* The execution engine (pycuda.driver): device allocations, ordered       *)
(* queues, copies and launches.  A world w is the part of the state a host *)
(* call reads and changes: w.arrays, w.queues, the driver calls it made    *)
(* (w.engine), and its outcome (w.err, w.ret, w.host).                     *)
(***************************************************************************)
mem_alloc(ncells) == [i \in 0..(ncells - 1) |-> Uninit]

ApplyOp(arrs, op) ==
    CASE op.kind = "htod" ->
           [arrs EXCEPT ![op.dst].gpudata = [i \in DOMAIN op.data |-> Cell(op.data[i])]]
      [] op.kind = "axpbyz" ->
           [arrs EXCEPT ![op.z].gpudata =
               axpbyz_kernel(op.a, arrs[op.x].gpudata, op.b, arrs[op.y].gpudata,
                             @, op.n, op.grid, op.block)]
      [] op.kind = "scale" ->
           [arrs EXCEPT ![op.y].gpudata =
               scale_kernel(op.a, arrs[op.x].gpudata, @, op.n, op.grid, op.block)]
      [] op.kind = "fill" ->
           [arrs EXCEPT ![op.x].gpudata =
               fill_kernel(op.a, @, op.n, op.grid, op.block)]

RECURSIVE ApplyAll(_, _)
ApplyAll(arrs, ops) ==
    IF ops = <<>> THEN arrs ELSE ApplyAll(ApplyOp(arrs, Head(ops)), Tail(ops))

\* A blocking call waits for the prior work of the default queue.
Synchronize(w) ==
    [w EXCEPT !.arrays = ApplyAll(w.arrays, w.queues[None]), !.queues[None] = <<>>]

DriverCall(fn, array, stream) == [fn |-> fn, array |-> array, stream |-> stream]

\* drv.memcpy_htod(dest, src, stream): blocking without a stream, else
\* enqueued on the stream.
memcpy_htod(w, dst, data, stream) ==
    LET op  == [kind |-> "htod", dst |-> dst, data |-> data]
        log == Append(w.engine, DriverCall("memcpy_htod", dst, stream))
    IN IF stream = None
       THEN LET s == Synchronize(w)
            IN [s EXCEPT !.arrays = ApplyOp(s.arrays, op), !.engine = log]
       ELSE [w EXCEPT !.queues[stream] = Append(@, op), !.engine = log]

\* The values a blocking device-to-host copy may deliver: written cells as
\* they are, never-written cells as junk[i].
JunkChoices(buf, values) == [{i \in DOMAIN buf : buf[i] = Uninit} -> values]

memcpy_dtoh(w, src, junk) ==
    LET s   == Synchronize(w)
        buf == s.arrays[src].gpudata
    IN [s EXCEPT !.host = [i \in DOMAIN buf |->
                              IF buf[i] = Uninit THEN junk[i] ELSE buf[i][1]],
                 !.engine = Append(@, DriverCall("memcpy_dtoh", src, None))]

\* kernel(args, block=..., grid=..., stream=...): always enqueued, on the
\* stream given or on the default queue.
launch(w, self, op, stream) ==
    [w EXCEPT !.queues[stream] = Append(@, op),
              !.engine = Append(@, DriverCall("launch", self, stream))]

raise(w, err) == [w EXCEPT !.err = err]

(***************************************************************************)
(* Host-side values: shapes, element types, numpy arrays.                  *)
(***************************************************************************)
RECURSIVE product(_)
product(shape) == IF shape = <<>> THEN 1 ELSE Head(shape) * product(Tail(shape))

\* The shapes and element types host calls are made with.  Arrays are
\* constructed with one element (in one or two dimensions, so that equal
\* sizes with different shapes occur) and in two element types; host buffers
\* are empty or hold one element, so that to_gpu also yields empty arrays
\* and set meets a size mismatch.
ArrayKinds ==
    {<<<<1>>, "float32">>, <<<<1, 1>>, "float32">>, <<<<1>>, "float64">>}
HostValues == {1}
HostShapes == {<<0>>, <<1>>}
\* What a read of a never-written device cell may deliver.
GarbageValues == {1, 2}
Factors == {2}
FillValues == {1}

ndarray(shape, dtype, data) ==
    [shape |-> shape, dtype |-> dtype, size |-> product(shape), data |-> data]

HostArrays ==
    UNION {{ndarray(sh, dt, d) : d \in [0..(product(sh) - 1) -> HostValues]} :
             <<sh, dt>> \in HostShapes \X {"float32"}}

NewWorld(arrs, qs) ==
    [arrays |-> arrs, queues |-> qs, engine |-> <<>>,
     err |-> "none", ret |-> 0, host |-> <<>>]

(***************************************************************************)
(* class GPUArray                                                          *)
(***************************************************************************)
\* GPUArray.__init__: the new object is appended to w.arrays, w.ret is its index.
GPUArray(w, shape, dtype, stream) ==
    LET self == Len(w.arrays) + 1
        obj  == [shape |-> shape, dtype |-> dtype, size |-> product(shape),
                 gpudata |-> mem_alloc(product(shape)), stream |-> stream]
    IN [w EXCEPT !.arrays = Append(@, obj), !.ret = self,
                 !.engine = Append(@, DriverCall("mem_alloc", self, None))]

set(w, self, ary, stream) ==
    IF ary.size # w.arrays[self].size THEN raise(w, "AssertionError")
    ELSE IF ary.dtype # w.arrays[self].dtype THEN raise(w, "AssertionError")
    ELSE memcpy_htod(w, self, ary.data, stream)

\* get(ary=None): a fresh host buffer of self.shape, filled by a blocking copy.
get(w, self, junk) == memcpy_dtoh(w, self, junk)

_axpbyz_and(w, self, selffac, other, otherfac, out) ==
    LET x == w.arrays[self]
        y == w.arrays[other]
    IN IF x.dtype # "float32" THEN raise(w, "AssertionError")
       ELSE IF x.shape # y.shape THEN raise(w, "AssertionError")
       ELSE IF x.dtype # y.dtype THEN raise(w, "AssertionError")
       ELSE IF (x.stream # None /\ y.stream # None) /\ x.stream # y.stream
            THEN raise(w, "AssertionError")
       ELSE LET g == splay(x.size, WARP_SIZE, MAX_THREADS, MAX_BLOCKS)
            IN [launch(w, self,
                       [kind |-> "axpbyz", a |-> float32(selffac), x |-> self,
                        b |-> float32(otherfac), y |-> other, z |-> out,
                        n |-> x.size, grid |-> g.block_count,
                        block |-> g.threads_per_block],
                       x.stream)
                EXCEPT !.ret = out]

_axpbyz(w, self, selffac, other, otherfac, out) ==
    LET x == w.arrays[self]
        y == w.arrays[other]
    IN IF x.dtype # "float32" THEN raise(w, "AssertionError")
       ELSE IF x.shape # y.shape THEN raise(w, "AssertionError")
       ELSE IF x.dtype # y.dtype THEN raise(w, "AssertionError")
       ELSE IF (x.stream # None \/ y.stream # None) /\ x.stream # y.stream
            THEN raise(w, "AssertionError")
       ELSE LET g == splay(x.size, WARP_SIZE, MAX_THREADS, MAX_BLOCKS)
            IN [launch(w, self,
                       [kind |-> "axpbyz", a |-> float32(selffac), x |-> self,
                        b |-> float32(otherfac), y |-> other, z |-> out,
                        n |-> x.size, grid |-> g.block_count,
                        block |-> g.threads_per_block],
                       x.stream)
                EXCEPT !.ret = out]

__add__(w, self, other) ==
    LET r == GPUArray(w, w.arrays[self].shape, w.arrays[self].dtype, None)
    IN _axpbyz(r, self, 1, other, 1, r.ret)

__sub__(w, self, other) ==
    LET r == GPUArray(w, w.arrays[self].shape, w.arrays[self].dtype, None)
    IN _axpbyz(r, self, 1, other, -1, r.ret)

_scale(w, self, factor) ==
    LET x == w.arrays[self]
    IN IF x.dtype # "float32" THEN raise(w, "AssertionError")
       ELSE LET g == splay(x.size, WARP_SIZE, MAX_THREADS, MAX_BLOCKS)
                r == GPUArray(w, x.shape, x.dtype, None)
            IN [launch(r, self,
                       [kind |-> "scale", a |-> float32(factor), x |-> self,
                        y |-> r.ret, n |-> x.size,
                        grid |-> g.block_count, block |-> g.threads_per_block],
                       x.stream)
                EXCEPT !.ret = r.ret]

__neg__(w, self) == _scale(w, self, -1)

__mul__(w, self, scalar) == _scale(w, self, scalar)

__rmul__(w, self, scalar) == _scale(w, self, scalar)

fill_result(w, self, value) ==
    LET x == w.arrays[self]
    IN IF x.dtype # "float32" THEN raise(w, "AssertionError")
       ELSE LET g == splay(x.size, WARP_SIZE, MAX_THREADS, MAX_BLOCKS)
                r == GPUArray(w, x.shape, x.dtype, None)
            IN [launch(r, self,
                       [kind |-> "fill", a |-> float32(value), x |-> r.ret,
                        n |-> x.size,
                        grid |-> g.block_count, block |-> g.threads_per_block],
                       x.stream)
                EXCEPT !.ret = r.ret]

fill(w, self, value) ==
    LET x == w.arrays[self]
    IN IF x.dtype # "float32" THEN raise(w, "AssertionError")
       ELSE LET g == splay(x.size, WARP_SIZE, MAX_THREADS, MAX_BLOCKS)
                r == GPUArray(w, x.shape, x.dtype, None)
            IN [launch(r, self,
                       [kind |-> "fill", a |-> float32(value), x |-> self,
                        n |-> x.size,
                        grid |-> g.block_count, block |-> g.threads_per_block],
                       x.stream)
                EXCEPT !.ret = r.ret]

to_gpu(w, ary, stream) ==
    LET r == GPUArray(w, ary.shape, ary.dtype, None)
    IN [set(r, r.ret, ary, stream) EXCEPT !.ret = r.ret]

zeros_fill_result(w, shape, dtype, stream) ==
    LET r == GPUArray(w, shape, dtype, stream)
    IN fill(r, r.ret, 0)

\* zeros: the array fill returns is dropped at once (no reference is kept),
\* so its device buffer is released; the array constructed first is returned.
zeros(w, shape, dtype, stream) ==
    LET r == GPUArray(w, shape, dtype, stream)
        f == fill(r, r.ret, 0)
    IN [f EXCEPT !.arrays = SubSeq(@, 1, r.ret), !.ret = r.ret]

(***************************************************************************)
(* Host calls as actions.  A call that raises leaves no reference to the   *)
(* arrays it constructed, so they are destroyed with it.                   *)
(***************************************************************************)
World == NewWorld(arrays, queues)

\* Streams are opaque handles: a call is made with no stream, with a stream
\* already in use, or with the next unused one.
UsedStreams ==
    {arrays[i].stream : i \in 1..Len(arrays)} \cup {s \in Streams : queues[s] # <<>>}

StreamChoice ==
    {s \in StreamArgs : s = None \/ s \in UsedStreams \/ (s - 1) \in UsedStreams \cup {None}}

Call(op, self, other, factor, shape, host) ==
    [op |-> op, self |-> self, other |-> other, factor |-> factor,
     shape |-> shape, host |-> host]

Commit(w, call) ==
    /\ budget > 0
    /\ arrays' = IF w.err = "none" THEN w.arrays ELSE SubSeq(w.arrays, 1, Len(arrays))
    /\ queues' = w.queues
    /\ last' = [op |-> call.op, self |-> call.self, other |-> call.other,
                factor |-> call.factor, shape |-> call.shape,
                host |-> IF w.err = "none" THEN call.host ELSE <<>>,
                ret |-> IF w.err = "none" THEN w.ret ELSE 0,
                err |-> w.err, engine |-> w.engine]
    /\ budget' = budget - 1
    /\ origin' = [i \in 1..Len(arrays') |->
                    IF i <= Len(origin) THEN origin[i] ELSE call.op]
    /\ UNCHANGED sp

Live == 1..Len(arrays)

New ==
    \E k \in ArrayKinds, st \in StreamChoice :
        Commit(GPUArray(World, k[1], k[2], st),
               Call("GPUArray", 0, 0, 0, k[1], <<>>))

Set ==
    \E a \in Live, ary \in HostArrays, st \in StreamChoice :
        Commit(set(World, a, ary, st), Call("set", a, 0, 0, <<>>, ary.data))

Get ==
    \E a \in Live :
        \E junk \in JunkChoices(Synchronize(World).arrays[a].gpudata, GarbageValues) :
            LET w == get(World, a, junk)
            IN Commit(w, Call("get", a, 0, 0, <<>>, w.host))

ToGpu ==
    \E ary \in HostArrays, st \in StreamChoice :
        Commit(to_gpu(World, ary, st),
               Call("to_gpu", 0, 0, 0, ary.shape, ary.data))

Zeros ==
    \E k \in ArrayKinds, st \in StreamChoice :
        Commit(zeros(World, k[1], k[2], st),
               Call("zeros", 0, 0, 0, k[1], <<>>))

Add ==
    \E a \in Live, b \in Live :
        Commit(__add__(World, a, b), Call("add", a, b, 0, <<>>, <<>>))

Sub ==
    \E a \in Live, b \in Live :
        Commit(__sub__(World, a, b), Call("sub", a, b, 0, <<>>, <<>>))

Mul ==
    \E a \in Live, f \in Factors :
        Commit(__mul__(World, a, f), Call("mul", a, 0, f, <<>>, <<>>))

RMul ==
    \E a \in Live, f \in Factors :
        Commit(__rmul__(World, a, f), Call("rmul", a, 0, f, <<>>, <<>>))

Neg ==
    \E a \in Live :
        Commit(__neg__(World, a), Call("neg", a, 0, 0, <<>>, <<>>))

Fill ==
    \E a \in Live, v \in FillValues :
        Commit(fill(World, a, v), Call("fill", a, 0, v, <<>>, <<>>))

\* The engine runs the oldest pending operation of one of its queues.
Execute ==
    \E s \in StreamArgs :
        /\ queues[s] # <<>>
        /\ arrays' = ApplyOp(arrays, Head(queues[s]))
        /\ queues' = [queues EXCEPT ![s] = Tail(@)]
        /\ UNCHANGED <<last, budget, origin, sp>>

NoCall ==
    [op |-> "none", self |-> 0, other |-> 0, factor |-> 0, shape |-> <<>>,
     host |-> <<>>, ret |-> 0, err |-> "none", engine |-> <<>>]

EmptyQueues == [s \in StreamArgs |-> <<>>]

\* The state after the construction of a GPUArray.
Init ==
    /\ \E k \in ArrayKinds, st \in {None, 1} :
          LET w == GPUArray(NewWorld(<<>>, EmptyQueues), k[1], k[2], st)
          IN /\ arrays = w.arrays
             /\ queues = w.queues
             /\ last = [NoCall EXCEPT !.op = "GPUArray", !.shape = k[1],
                                      !.ret = w.ret, !.engine = w.engine]
    /\ budget = MaxCalls
    /\ origin = <<"GPUArray">>
    /\ sp = [phase |-> "idle"]

Next ==
    \/ New
    \/ Set
    \/ Get
    \/ ToGpu
    \/ Zeros
    \/ Add
    \/ Sub
    \/ Mul
    \/ RMul
    \/ Neg
    \/ Fill
    \/ Execute

Spec == Init /\ [][Next]_vars

(***************************************************************************)
(* splay as a pure function: its arguments are drawn from bounded ranges,  *)
(* it is called, and a strided-loop kernel is launched with its result.    *)
(***************************************************************************)
SplayArgs ==
    {[phase |-> "args", n |-> n, min_threads |-> mn, max_threads |-> mx,
      max_blocks |-> mb] :
        n \in 0..SplayMaxN, mn \in 1..SplayMaxMin, mx \in 1..SplayMaxMax,
        mb \in 1..SplayMaxBlocks}

InitSplay ==
    /\ arrays = <<>>
    /\ queues = EmptyQueues
    /\ last = NoCall
    /\ budget = MaxCalls
    /\ origin = <<>>
    /\ sp \in {a \in SplayArgs : a.max_threads >= a.min_threads}

CallSplay ==
    /\ sp.phase = "args"
    /\ sp' = [phase |-> "launched", n |-> sp.n, min_threads |-> sp.min_threads,
              max_threads |-> sp.max_threads, max_blocks |-> sp.max_blocks,
              res |-> splay(sp.n, sp.min_threads, sp.max_threads, sp.max_blocks)]
    /\ UNCHANGED <<arrays, queues, last, budget, origin>>

RunKernel ==
    /\ sp.phase = "launched"
    /\ sp' = [phase |-> "done", n |-> sp.n, min_threads |-> sp.min_threads,
              max_threads |-> sp.max_threads, max_blocks |-> sp.max_blocks,
              res |-> sp.res,
              visits |-> KernelVisits(sp.res.block_count,
                                      sp.res.threads_per_block, sp.n)]
    /\ UNCHANGED <<arrays, queues, last, budget, origin>>

NextSplay ==
    \/ CallSplay
    \/ RunKernel

SpecSplay == InitSplay /\ [][NextSplay]_vars

(***************************************************************************)
(* Arithmetic on uploaded arrays of every size class of splay(n, 32, 128,  *)
(* 80): two host buffers are uploaded with to_gpu (blocking), then one     *)
(* arithmetic operation is called and its kernel runs.                     *)
(***************************************************************************)
ArithSizes ==
    {0, 1,
     WARP_SIZE + ArithExtra,
     MAX_BLOCKS * WARP_SIZE + ArithExtra,
     MAX_BLOCKS * MAX_THREADS + ArithExtra}

Pattern(p, n) == [i \in 0..(n - 1) |-> ((i + p) % 3) + 1]

InitArith ==
    /\ \E n \in ArithSizes, p \in 1..ArithPatterns :
          LET w1 == to_gpu(NewWorld(<<>>, EmptyQueues),
                           ndarray(<<n>>, "float32", Pattern(p, n)), None)
              w2 == to_gpu(NewWorld(w1.arrays, w1.queues),
                           ndarray(<<n>>, "float32", Pattern(p + 1, n)), None)
          IN /\ arrays = w2.arrays
             /\ queues = w2.queues
             /\ last = [NoCall EXCEPT !.op = "to_gpu", !.shape = <<n>>,
                                      !.host = Pattern(p + 1, n),
                                      !.ret = w2.ret, !.engine = w2.engine]
    /\ budget = 1
    /\ origin = <<"to_gpu", "to_gpu">>
    /\ sp = [phase |-> "idle"]

NextArith ==
    \/ Add
    \/ Sub
    \/ Mul
    \/ RMul
    \/ Neg
    \/ Execute

SpecArith == InitArith /\ [][NextArith]_vars

(***************************************************************************)
(* Properties.                                                             *)
(***************************************************************************)
ArithOps == {"add", "sub", "mul", "rmul", "neg"}

AllCells(buf, v) == \A i \in DOMAIN buf : buf[i] = Cell(v)

AllUninit(buf) == \A i \in DOMAIN buf : buf[i] = Uninit

\* The engine completes the kernel the last host call launched: it is the
\* newest operation of the queue of the receiver's stream, and no host call
\* was made since.
LastKernelCompletes ==
    /\ last.err = "none"
    /\ last' = last
    /\ Len(queues[arrays[last.self].stream]) = 1
    /\ queues'[arrays[last.self].stream] = <<>>

\* The step is a successful get() made right after the host call `last`,
\* on the array `target`.
GetRightAfter(target) ==
    /\ budget' = budget - 1
    /\ last'.op = "get"
    /\ last'.self = target

\* C1: a kernel launched with the (block_count, threads_per_block) that
\* splay returns, each thread running the strided loop, visits every index
\* of [0, n) exactly once and no other index; the launch has at least one
\* block and one thread, also for n = 0.
C1_StridedCoverage ==
    sp.phase = "done" =>
        /\ sp.res.block_count >= 1
        /\ sp.res.threads_per_block >= 1
        /\ DOMAIN sp.visits = 0..(sp.n - 1)
        /\ \A i \in DOMAIN sp.visits : sp.visits[i] = 1

\* C1 witness: a launch with several blocks whose threads each loop more
\* than once has run.
C1_Witness ==
    /\ sp.phase = "done"
    /\ sp.res.block_count > 1
    /\ sp.n > 2 * sp.res.block_count * sp.res.threads_per_block
    /\ DOMAIN sp.visits = 0..(sp.n - 1)

\* C2: the result of splay has block_count <= max_blocks, threads_per_block
\* <= max_threads, and threads_per_block a multiple of min_threads, for all
\* n >= 0, min_threads >= 1, max_threads >= min_threads, max_blocks >= 1.
C2_SplayBounds ==
    sp.phase \in {"launched", "done"} =>
        /\ sp.res.block_count <= sp.max_blocks
        /\ sp.res.threads_per_block <= sp.max_threads
        /\ sp.res.threads_per_block % sp.min_threads = 0

\* C3: once the kernel launched by x + y, x - y, x * f, f * x or -x has
\* completed, the returned array z holds x[i] + y[i], x[i] - y[i], f * x[i],
\* f * x[i] or -x[i] at every i in [0, size), for every size.
C3_Arithmetic ==
    (last.op \in ArithOps /\ last.err = "none" /\ queues = EmptyQueues) =>
        LET x == arrays[last.self].gpudata
            z == arrays[last.ret].gpudata
        IN /\ DOMAIN z = 0..(arrays[last.self].size - 1)
           /\ \A i \in DOMAIN z :
                z[i] = Cell(CASE last.op = "add" ->
                                   x[i][1] + arrays[last.other].gpudata[i][1]
                              [] last.op = "sub" ->
                                   x[i][1] - arrays[last.other].gpudata[i][1]
                              [] last.op \in {"mul", "rmul"} -> last.factor * x[i][1]
                              [] last.op = "neg" -> 0 - x[i][1])

\* C3 witness: the kernel of a subtraction of two distinct arrays of at
\* least 80*128 elements has completed.
C3_Witness ==
    /\ last.op = "sub"
    /\ last.err = "none"
    /\ queues = EmptyQueues
    /\ last.self # last.other
    /\ arrays[last.self].size >= MAX_BLOCKS * MAX_THREADS
    /\ arrays[last.ret].gpudata[arrays[last.self].size - 1] # Uninit

C5_ZerosReadZero ==
    [][(/\ last.op = "zeros"
        /\ last.err = "none"
        /\ arrays[last.ret].stream = None
        /\ GetRightAfter(last.ret)) =>
          /\ arrays[last.ret].shape = last.shape
          /\ last'.err = "none"
          /\ last'.host = [i \in 0..(product(last.shape) - 1) |-> 0]]_vars

\* C5 witness: get() on a non-empty array made by zeros without a stream
\* has returned zeros.
C5_Witness ==
    /\ last.op = "get"
    /\ origin[last.self] = "zeros"
    /\ arrays[last.self].stream = None
    /\ arrays[last.self].size >= 1
    /\ \A i \in DOMAIN last.host : last.host[i] = 0

\* C6: add/sub of two float32 arrays of equal shape is rejected exactly when
\* both operands have a bound stream and the streams differ; in every other
\* case the kernel is launched.
C6_StreamCheck ==
    (/\ last.op \in {"add", "sub"}
     /\ arrays[last.self].dtype = "float32"
     /\ arrays[last.other].dtype = "float32"
     /\ arrays[last.self].shape = arrays[last.other].shape) =>
        LET s1 == arrays[last.self].stream
            s2 == arrays[last.other].stream
        IN IF s1 # None /\ s2 # None /\ s1 # s2
           THEN last.err = "AssertionError"
           ELSE /\ last.err = "none"
                /\ \E k \in DOMAIN last.engine : last.engine[k].fn = "launch"

\* C7: add/sub on arrays of different shapes, or on arrays that are not
\* float32, fails having launched no kernel and allocated no device buffer.
C7_FailFast ==
    (/\ last.op \in {"add", "sub"}
     /\ \/ arrays[last.self].shape # arrays[last.other].shape
        \/ arrays[last.self].dtype # "float32"
        \/ arrays[last.other].dtype # "float32") =>
        /\ last.err = "AssertionError"
        /\ \A k \in DOMAIN last.engine :
              last.engine[k].fn \notin {"launch", "mem_alloc"}

\* C8: a get() right after set(x) or to_gpu(x) returns x, with or without
\* a stream given to set / to_gpu.
C8_RoundTrip ==
    [][(/\ last.op \in {"set", "to_gpu"}
        /\ last.err = "none"
        /\ GetRightAfter(IF last.op = "set" THEN last.self ELSE last.ret)) =>
          last'.host = last.host]_vars

\* C9: every transfer and every kernel issued on an array goes to the
\* array's bound stream, or to the default queue when it has none.
C9_BoundStreamUsed ==
    last.err = "none" =>
        \A k \in DOMAIN last.engine :
            last.engine[k].fn \in {"memcpy_htod", "memcpy_dtoh", "launch"} =>
                last.engine[k].stream = arrays[last.engine[k].array].stream

\* C10: arrays returned by add, sub, scale, negate and to_gpu have no bound
\* stream; an array has a bound stream only if GPUArray or zeros constructed
\* it; add/sub of the result of an arithmetic operation and a stream-bound
\* array is rejected.
C10_ResultsUnbound ==
    /\ \A i \in 1..Len(arrays) :
          /\ origin[i] \in ArithOps \cup {"to_gpu"} => arrays[i].stream = None
          /\ arrays[i].stream # None => origin[i] \in {"GPUArray", "zeros"}
    /\ \A pair \in {<<last.self, last.other>>, <<last.other, last.self>>} :
          (/\ last.op \in {"add", "sub"}
           /\ origin[pair[1]] \in ArithOps
           /\ arrays[pair[2]].stream # None) =>
              /\ last.err = "AssertionError"
              /\ \A k \in DOMAIN last.engine : last.engine[k].fn # "launch"

\* C10 witness: the sum of an arithmetic result and a stream-bound float32
\* array of the same shape was rejected.
C10_Witness ==
    /\ last.op = "add"
    /\ last.err = "AssertionError"
    /\ origin[last.self] \in ArithOps
    /\ arrays[last.other].stream # None
    /\ arrays[last.self].shape = arrays[last.other].shape
    /\ arrays[last.self].dtype = "float32"
    /\ arrays[last.other].dtype = "float32"

=============================================================================
